---- MODULE Spec2Model ----
(***************************************************************************)
(* TeleForwarder: the cron-driven forwarder (src/src) and the continuous   *)
(* forwarder (src/teleforwarder), as state machines.                       *)
(*                                                                         *)
(* Time is counted in half hours since midnight UTC of day 0, so that a    *)
(* time zone such as Asia/Tehran (UTC+3:30) has a whole offset.            *)
(***************************************************************************)
EXTENDS Integers, Sequences, FiniteSets, TLC

\* ------------------------------------------------------------------ bounds
\* Messages the source channel may come to hold.
MaxFeed == 3
\* The page size of one get_messages call; the code asks for limit=100.
PageLimit == 2
\* Number of forwarding jobs the scheduler fires.
MaxCycles == 2
\* Number of gateway calls that fail in one run.
MaxFailures == 1
\* Number of half hours the clock advances.
MaxTicks == 1
\* Number of admin commands handled in one run.
MaxCommands == 1
\* Number of times the caller of round_robin enters its for statement.
MaxSweeps == 2
\* Length of the list handed to round_robin.
MaxLen == 3

VARIABLES
    program,   \* which program runs: "cron", "daily" or "listen"; "admission",
               \* "resolver" and "round_robin" for a part taken on its own
    now,       \* the clock, in half hours
    feed,      \* the source channel: messages, oldest first, id = position
    failures,  \* gateway calls that have failed so far
    config,    \* ConfigManager.config (and config.json, saved on every update)
    task,      \* the forward_messages_async tasks created by forwarding_job
    spawned,   \* tasks created so far
    boots,     \* process restarts so far
    settings,  \* teleforwarder.config.settings, fixed when the process starts
    daily,     \* ForwardDailyTexts and its run_forever coroutine
    loaded,    \* what load_config returned when the process started
    commands,  \* admin commands handled so far
    listen,    \* ForwardOnNew: the handler invocations, one per NewMessage event
    rr         \* a caller of round_robin that keeps the index it is given

cronVars == <<config, task, spawned, boots, loaded, commands>>

dailyVars == <<settings, daily, listen, rr>>

vars == <<program, now, feed, failures, config, task, spawned, boots, settings, daily,
          loaded, commands, listen, rr>>

\* ------------------------------------------------------------ sequences
RECURSIVE Reverse(_)
Reverse(s) == IF s = <<>> THEN <<>> ELSE Append(Reverse(Tail(s)), Head(s))

Take(s, n) == SubSeq(s, 1, IF Len(s) < n THEN Len(s) ELSE n)

Ids(s) == {s[i].id : i \in 1..Len(s)}

MaxOf(S) == CHOOSE x \in S : \A y \in S : y <= x

\* One insertion of list.sort(key=lambda m: m.date), a stable sort: m, which
\* follows s in the list, goes behind the elements of its date.
RECURSIVE InsertByDate(_, _)
InsertByDate(s, m) ==
    IF s = <<>> THEN <<m>>
    ELSE IF m.date < Head(s).date THEN <<m>> \o s
    ELSE <<Head(s)>> \o InsertByDate(Tail(s), m)

\* single_user_forwarder.py line 78, mutated: the list is left as fetched.
Unsorted(s) == s

\* single_user_forwarder.py line 78: messages_to_forward.sort(key=lambda m: m.date).
RECURSIVE SortByDate(_)
SortByDate(s) ==
    IF s = <<>> THEN <<>>
    ELSE InsertByDate(SortByDate(SubSeq(s, 1, Len(s) - 1)), s[Len(s)])

\* ------------------------------------------------------------------ time
UtcHour(t) == (t % 48) \div 2

LocalHour(t, off) == ((t + off) % 48) \div 2

\* The calendar day of instant t in the zone `off` half hours east of UTC.
LocalDay(t, off) == (t + off) \div 48

\* single_user_forwarder.py line 60, mutated: the end hour is admitted.
InWindowEndInclusive(cfg, t) ==
    cfg.start_hour <= UtcHour(t) /\ UtcHour(t) <= cfg.end_hour

\* single_user_forwarder.py line 60: start_hour <= now.hour < end_hour, now in UTC.
InWindow(cfg, t) ==
    cfg.start_hour <= UtcHour(t) /\ UtcHour(t) < cfg.end_hour

\* single_user_forwarder.py line 57, mutated: the flag is read inverted.
AdmittedFlagInverted(cfg, t) == ~cfg.time_interval_enabled => InWindow(cfg, t)

\* single_user_forwarder.py lines 57-62: the cycle goes on unless the window is
\* enabled and the hour is outside it.
Admitted(cfg, t) == cfg.time_interval_enabled => InWindow(cfg, t)

\* ------------------------------------------------------------ the gateway
\* client.get_messages(entity, limit=limit, min_id=min_id): the newest `limit`
\* messages with id > min_id, newest first.
GetMessagesMinId(f, min_id, limit) ==
    Take(Reverse(SelectSeq(f, LAMBDA m : m.id > min_id)), limit)

\* client.get_messages(entity, offset_id=offset_id, limit=limit): the newest
\* `limit` messages with id < offset_id (all of them for offset_id = 0),
\* newest first.
GetMessagesOffset(f, offset_id, limit) ==
    Take(Reverse(SelectSeq(f, LAMBDA m : offset_id = 0 \/ m.id < offset_id)), limit)

\* telegram_gateway.py line 63, mutated: the offset is the id of the newest
\* message of the page.
NextOffsetNewest(chunk) == chunk[1].id

\* telegram_gateway.py line 63 and fetch_messages.py line 37: the offset of the
\* next page is the id of the last, the oldest, message of this page.
NextOffset(chunk) == chunk[Len(chunk)].id

\* telegram_gateway.py lines 45-65 and fetch_messages.py lines 26-41: the
\* get_messages calls of the paging loop, each with its offset_id and the page
\* it returned.
RECURSIVE PageRequests(_, _, _)
PageRequests(f, offset_id, start) ==
    LET chunk == GetMessagesOffset(f, offset_id, PageLimit)
    IN  <<[offset |-> offset_id, chunk |-> chunk]>> \o
        (IF chunk = <<>> \/ chunk[Len(chunk)].date < start THEN <<>>
         ELSE PageRequests(f, NextOffset(chunk), start))

\* The messages of a page down to the first one before the boundary.
RECURSIVE KeepFromBoundary(_, _)
KeepFromBoundary(chunk, start) ==
    IF chunk = <<>> \/ Head(chunk).date < start THEN <<>>
    ELSE <<Head(chunk)>> \o KeepFromBoundary(Tail(chunk), start)

\* fetch_messages.py lines 26-41: the paging loop, newest first.
RECURSIVE TodayPages(_, _, _)
TodayPages(f, offset_id, start) ==
    LET chunk == GetMessagesOffset(f, offset_id, PageLimit)
    IN  IF chunk = <<>> THEN <<>>
        ELSE KeepFromBoundary(chunk, start) \o
             (IF chunk[Len(chunk)].date < start THEN <<>>
              ELSE TodayPages(f, NextOffset(chunk), start))

\* fetch_messages.py line 22: midnight UTC of the current day.
StartOfTodayUtc(t) == t - (t % 48)

\* fetch_messages.py fetch_all_today_messages.
FetchAllTodayMessages(f, t) == Reverse(TodayPages(f, 0, StartOfTodayUtc(t)))

\* ------------------------------------------------------- the cron program
Tasks == 1..MaxCycles

NoTask ==
    [pc |-> "none", outcome |-> "none", mode |-> "none", last_id |-> 0,
     msgs |-> <<>>, sgs |-> <<>>, order |-> "none", sgi |-> 0, mi |-> 0,
     fetches |-> 0, wrote |-> 0, log |-> <<>>, wm0 |-> 0, boot |-> 0,
     mode0 |-> "none", order0 |-> "none", sgs0 |-> <<>>, pages |-> <<>>]

Running(t) == task[t].pc \notin {"none", "done"}

\* What a FloodWaitError may carry as its seconds.
FloodSeconds == {5}

\* What a failed call of the gateway raised: 0 for an exception that is not a
\* FloodWaitError, the seconds of the FloodWaitError otherwise.
Raised == {0} \cup FloodSeconds

\* One call of the gateway for supergroup sg, as the log of the task keeps it:
\* the id of the message (0 for get_entity), whether the call returned, what it
\* raised, and the seconds the task slept after it before its next statement.
Attempt(sg, id, ok, flood, slept) ==
    [sg |-> sg, id |-> id, ok |-> ok, flood |-> flood, slept |-> slept]

\* single_user_forwarder.py line 101, mutated: the id of the first message.
FirstId(msgs) == msgs[1].id

\* single_user_forwarder.py line 101: max(m.id for m in messages_to_forward).
MaxId(msgs) == MaxOf(Ids(msgs))

\* config_manager.py lines 103-111, mutated: the write also sets start_hour.
SetLastForwardedIdClobbers(cfg, msg_id) ==
    [cfg EXCEPT !.last_forwarded_id = msg_id, !.start_hour = 0]

\* config_manager.py lines 103-111: set_last_forwarded_id, an update_config of
\* the key last_forwarded_id.
SetLastForwardedId(cfg, msg_id) == [cfg EXCEPT !.last_forwarded_id = msg_id]

\* single_user_forwarder.py line 86: `for sg in supergroups` steps on.
NextGroup(tk) == [tk EXCEPT !.sgi = tk.sgi + 1]

\* The except clause of line 97, mutated: the error ends the loop over the groups.
AbortGroups(tk) == [tk EXCEPT !.sgi = Len(tk.sgs) + 1]

\* single_user_forwarder.py lines 97-98: the exception is caught inside the
\* loop and logged, and the loop goes on with the next supergroup.
SkipGroup(tk) == NextGroup(tk)

\* single_user_forwarder.py lines 100-104: after the loop over the supergroups.
Finish(t, tk) ==
    IF tk.mode = "new" /\ tk.msgs # <<>>
    THEN /\ config' = SetLastForwardedId(config, MaxId(tk.msgs))
         /\ task' = [task EXCEPT ![t] = [tk EXCEPT !.pc = "done",
                                                   !.outcome = "complete",
                                                   !.wrote = tk.wrote + 1]]
    ELSE /\ config' = config
         /\ task' = [task EXCEPT ![t] = [tk EXCEPT !.pc = "done",
                                                   !.outcome = "complete"]]

\* single_user_forwarder.py line 86: the next turn of `for sg in supergroups`,
\* which awaits get_entity(sg), or the end of the loop.
LoopGroups(t, tk) ==
    IF tk.sgi <= Len(tk.sgs)
    THEN /\ task' = [task EXCEPT ![t] = [tk EXCEPT !.pc = "sg_entity"]]
         /\ config' = config
    ELSE Finish(t, tk)

\* single_user_forwarder.py lines 80-86: the resolved set is in hand.
Resolved(t, tk, msgs) ==
    IF msgs = <<>>
    THEN /\ task' = [task EXCEPT ![t] = [tk EXCEPT !.pc = "done",
                                                   !.outcome = "empty"]]
         /\ config' = config
    ELSE LoopGroups(t, [tk EXCEPT !.msgs = msgs,
                                  !.sgs = config.supergroups,
                                  !.order = config.forward_order,
                                  !.sgi = 1])

\* main.py lines 58-65: the scheduler fires forwarding_job, which creates the
\* task; nothing looks at the tasks created before.
ForwardingJob ==
    /\ program = "cron"
    /\ spawned < MaxCycles
    /\ spawned' = spawned + 1
    /\ task' = [task EXCEPT ![spawned + 1] =
                   [NoTask EXCEPT !.pc = "start",
                                  !.wm0 = config.last_forwarded_id,
                                  !.boot = boots]]
    /\ UNCHANGED <<program, now, feed, failures, config, boots, loaded, commands, dailyVars>>

\* single_user_forwarder.py lines 54-66: the time window, then the request for
\* the source channel.
CheckWindow(t) ==
    /\ task[t].pc = "start"
    /\ LET tk == [task[t] EXCEPT !.mode0 = config.forward_mode,
                                 !.order0 = config.forward_order,
                                 !.sgs0 = config.supergroups]
       IN  IF Admitted(config, now)
           THEN task' = [task EXCEPT ![t] = [tk EXCEPT !.pc = "get_source",
                                                       !.fetches = 1]]
           ELSE task' = [task EXCEPT ![t] = [tk EXCEPT !.pc = "done",
                                                       !.outcome = "skipped"]]
    /\ UNCHANGED <<program, now, feed, failures, config, spawned, boots, loaded, commands, dailyVars>>

\* single_user_forwarder.py lines 65-76: get_entity(source_channel) returns or
\* raises; then the mode is read, and in "new" mode the watermark.
ResolveSource(t) ==
    /\ task[t].pc = "get_source"
    /\ \/ /\ failures < MaxFailures
          /\ failures' = failures + 1
          /\ task' = [task EXCEPT ![t].pc = "done", ![t].outcome = "no_source"]
       \/ /\ failures' = failures
          /\ task' = [task EXCEPT
                 ![t].mode = config.forward_mode,
                 ![t].pc = IF config.forward_mode = "today"
                           THEN "fetch_today" ELSE "fetch_new",
                 ![t].last_id = IF config.forward_mode = "today"
                                THEN 0 ELSE config.last_forwarded_id,
                 ![t].fetches = 2]
    /\ UNCHANGED <<program, now, feed, config, spawned, boots, loaded, commands, dailyVars>>

\* single_user_forwarder.py lines 76-86: get_messages returns or raises (no
\* handler: the exception leaves the coroutine).
FetchNew(t) ==
    /\ task[t].pc = "fetch_new"
    /\ \/ /\ failures < MaxFailures
          /\ failures' = failures + 1
          /\ task' = [task EXCEPT ![t].pc = "done", ![t].outcome = "raised"]
          /\ config' = config
       \/ /\ failures' = failures
          /\ Resolved(t, task[t],
                 SortByDate(GetMessagesMinId(feed, task[t].last_id, PageLimit)))
    /\ UNCHANGED <<program, now, feed, spawned, boots, loaded, commands, dailyVars>>

\* single_user_forwarder.py lines 73, 80-86: fetch_all_today_messages returns
\* or raises.
FetchToday(t) ==
    /\ task[t].pc = "fetch_today"
    /\ \/ /\ failures < MaxFailures
          /\ failures' = failures + 1
          /\ task' = [task EXCEPT ![t].pc = "done", ![t].outcome = "raised"]
          /\ config' = config
       \/ /\ failures' = failures
          /\ Resolved(t, [task[t] EXCEPT !.pages =
                                 PageRequests(feed, 0, StartOfTodayUtc(now))],
                       FetchAllTodayMessages(feed, now))
    /\ UNCHANGED <<program, now, feed, spawned, boots, loaded, commands, dailyVars>>

\* single_user_forwarder.py lines 88-94: get_entity(sg) returns or raises.
SgEntity(t) ==
    LET tk == task[t]
        sg == tk.sgs[tk.sgi]
    IN  /\ tk.pc = "sg_entity"
        /\ \/ /\ failures < MaxFailures
              /\ failures' = failures + 1
              /\ LoopGroups(t, SkipGroup(
                     [tk EXCEPT !.log = Append(tk.log, Attempt(sg, 0, FALSE, 0, 0))]))
           \/ /\ failures' = failures
              /\ task' = [task EXCEPT ![t] =
                     IF tk.order = "batch"
                     THEN [tk EXCEPT !.pc = "batch"]
                     ELSE [tk EXCEPT !.pc = "send", !.mi = 1]]
              /\ config' = config
        /\ UNCHANGED <<program, now, feed, spawned, boots, loaded, commands, dailyVars>>

\* The attempts of one forward_messages call carrying all of msgs.
BatchLog(sg, msgs, ok, flood) ==
    [i \in 1..Len(msgs) |-> Attempt(sg, msgs[i].id, ok, flood, 0)]

\* single_user_forwarder.py lines 90-91: forward_messages(sg_entity, list)
\* returns or raises.
Batch(t) ==
    LET tk == task[t]
        sg == tk.sgs[tk.sgi]
        logged(ok, flood) ==
            [tk EXCEPT !.log = tk.log \o BatchLog(sg, tk.msgs, ok, flood)]
    IN  /\ tk.pc = "batch"
        /\ \/ /\ failures < MaxFailures
              /\ failures' = failures + 1
              /\ \E flood \in Raised : LoopGroups(t, SkipGroup(logged(FALSE, flood)))
           \/ /\ failures' = failures
              /\ LoopGroups(t, NextGroup(logged(TRUE, 0)))
        /\ UNCHANGED <<program, now, feed, spawned, boots, loaded, commands, dailyVars>>

\* single_user_forwarder.py lines 93-98: forward_messages(sg_entity, msg)
\* raises, or returns and asyncio.sleep(1) ends; then the next message, or the
\* next supergroup.
Send(t) ==
    LET tk == task[t]
        sg == tk.sgs[tk.sgi]
        m  == tk.msgs[tk.mi]
        sent == [tk EXCEPT !.log = Append(tk.log, Attempt(sg, m.id, TRUE, 0, 1))]
    IN  /\ tk.pc = "send"
        /\ \/ /\ failures < MaxFailures
              /\ failures' = failures + 1
              /\ \E flood \in Raised :
                    LoopGroups(t, SkipGroup(
                        [tk EXCEPT !.log = Append(tk.log,
                            Attempt(sg, m.id, FALSE, flood, 0))]))
           \/ /\ failures' = failures
              /\ IF tk.mi < Len(tk.msgs)
                 THEN /\ task' = [task EXCEPT ![t] = [sent EXCEPT !.mi = tk.mi + 1]]
                      /\ config' = config
                 ELSE LoopGroups(t, NextGroup(sent))
        /\ UNCHANGED <<program, now, feed, spawned, boots, loaded, commands, dailyVars>>

\* The process stops and is started again: the tasks in flight are gone, and
\* config_manager.py load_config reads back what save_config wrote.
Restart ==
    /\ program = "cron"
    /\ \E t \in Tasks : Running(t)
    /\ boots' = boots + 1
    /\ task' = [t \in Tasks |->
                  IF Running(t)
                  THEN [task[t] EXCEPT !.pc = "done", !.outcome = "killed"]
                  ELSE task[t]]
    /\ loaded' = config
    /\ UNCHANGED <<program, now, feed, failures, config, spawned, commands, dailyVars>>

\* --------------------------------------------------------- the admin bot
\* config_manager.py lines 82-92: update_config sets the key in the dict that
\* ConfigManager.config names, the dict a running forward_messages_async holds
\* as cfg, and saves it.
UpdateConfig(cfg, key, value) == [cfg EXCEPT ![key] = value]

\* What the admin may send as the list of /setgroups.
AdminGroups == {<<"B", "A">>}

\* What the admin may send as the hours of /settimeinterval.
AdminHours == {<<22, 24>>}

\* An admin command arrives while the process runs; its handler has no await
\* before its update_config calls are done.
Command(cfg) ==
    /\ program = "cron"
    /\ commands < MaxCommands
    /\ commands' = commands + 1
    /\ config' = cfg
    /\ UNCHANGED <<program, now, feed, failures, task, spawned, boots, loaded, dailyVars>>

\* admin_bot.py lines 133-151: /setmode <today|new>.
SetMode == \E mode \in {"today", "new"} : Command(UpdateConfig(config, "forward_mode", mode))

\* admin_bot.py lines 153-171: /setorder <batch|one_by_one>.
SetOrder ==
    \E order \in {"batch", "one_by_one"} :
        Command(UpdateConfig(config, "forward_order", order))

\* admin_bot.py lines 118-131: /setgroups @group1, @group2.
SetGroups == \E groups \in AdminGroups : Command(UpdateConfig(config, "supergroups", groups))

\* admin_bot.py lines 173-209: /settimeinterval always, or <start> <end> with
\* 0 <= start < end <= 24.
SetTimeInterval ==
    \/ Command(UpdateConfig(config, "time_interval_enabled", FALSE))
    \/ \E h \in AdminHours :
          /\ 0 <= h[1] /\ h[1] < h[2] /\ h[2] <= 24
          /\ Command(UpdateConfig(UpdateConfig(UpdateConfig(config,
                 "time_interval_enabled", TRUE), "start_hour", h[1]), "end_hour", h[2]))

\* ------------------------------------------------- the continuous program
\* use_cases.py line 51, mutated: the end hour is admitted.
InAllowedWindowEndInclusive(st, t) ==
    st.start_hour <= LocalHour(t, st.tz) /\ LocalHour(t, st.tz) <= st.end_hour

\* use_cases.py lines 45-51: _in_allowed_window, the hour taken in
\* settings.timezone.
InAllowedWindow(st, t) ==
    st.start_hour <= LocalHour(t, st.tz) /\ LocalHour(t, st.tz) < st.end_hour

\* time_utils.py lines 9-19 with telegram_gateway.py lines 42, 52, 64: local
\* midnight, stripped of its zone by replace(tzinfo=None), is compared with the
\* message's UTC date stripped of its zone.
DayStartNaive(t, off) == (t + off) - ((t + off) % 48)

\* telegram_gateway.py lines 51-62: the messages of a page down to the first
\* one before the boundary, those with text and no media kept.
RECURSIVE KeepTexts(_, _)
KeepTexts(chunk, start) ==
    IF chunk = <<>> \/ Head(chunk).date < start THEN <<>>
    ELSE (IF Head(chunk).text /\ ~Head(chunk).media THEN <<Head(chunk)>> ELSE <<>>)
         \o KeepTexts(Tail(chunk), start)

\* telegram_gateway.py lines 45-65: the paging loop, newest first.
RECURSIVE TextPages(_, _, _)
TextPages(f, offset, start) ==
    LET chunk == GetMessagesOffset(f, offset, PageLimit)
    IN  IF chunk = <<>> THEN <<>>
        ELSE KeepTexts(chunk, start) \o
             (IF chunk[Len(chunk)].date < start THEN <<>>
              ELSE TextPages(f, NextOffset(chunk), start))

\* telegram_gateway.py lines 39-68: fetch_today_texts.
FetchTodayTexts(f, t, off) == Reverse(TextPages(f, 0, DayStartNaive(t, off)))

\* What list_public_groups may return.
PublicGroups == {<<>>, <<"A", "B">>}

DailyOff ==
    [pc |-> "off", messages |-> <<>>, idx |-> 0, targets |-> <<>>, ti |-> 0,
     n |-> 0, log |-> <<>>, fetches |-> 0, sleep |-> 0, day |-> 0,
     pages |-> <<>>, fetched |-> FALSE, napped |-> FALSE]

\* use_cases.py lines 28-31 and main.py line 35: run_forever is entered.
DailyIdle ==
    [pc |-> "check", messages |-> <<>>, idx |-> 0, targets |-> <<>>, ti |-> 0,
     n |-> 0, log |-> <<>>, fetches |-> 0, sleep |-> 0, day |-> 0,
     pages |-> <<>>, fetched |-> FALSE, napped |-> FALSE]

\* use_cases.py lines 75-77 and telegram_gateway.py lines 95-100: round_robin
\* yields (i, messages[i]), the loop stores i in self._idx and forward_text asks
\* for the first send.
Yield(d, i) ==
    [d EXCEPT !.idx = i, !.n = d.n + 1, !.ti = 1, !.pc = "send"]

\* use_cases.py lines 71-73, mutated: with no message the loop continues at
\* once.
WithTargetsNoWait(d, tgs) ==
    IF tgs = <<>> THEN [d EXCEPT !.targets = tgs, !.pc = "returned"]
    ELSE IF d.messages = <<>>
    THEN [d EXCEPT !.targets = tgs, !.pc = "check"]
    ELSE Yield([d EXCEPT !.targets = tgs, !.n = 0], d.idx)

\* use_cases.py lines 68-77: the targets are in hand.
WithTargets(d, tgs) ==
    IF tgs = <<>> THEN [d EXCEPT !.targets = tgs, !.pc = "returned"]
    ELSE IF d.messages = <<>>
    THEN [d EXCEPT !.targets = tgs, !.pc = "sleep_empty",
                   !.sleep = settings.sleep_between_messages]
    ELSE Yield([d EXCEPT !.targets = tgs, !.n = 0], d.idx)

\* telegram_gateway.py line 98, mutated: forward_text returns after its first
\* target.
StopTargets(d) == [d EXCEPT !.pc = "pace_msg", !.sleep = settings.sleep_between_messages]

\* use_cases.py line 43, mutated: the index is left as it is.
KeepIdx(d) == d

\* use_cases.py line 43: self._idx = 0.
ResetIdx(d) == [d EXCEPT !.idx = 0]

\* telegram_gateway.py line 98 and use_cases.py line 80: the next target of
\* forward_text, or its return and the sleep between messages.
NextTarget(d) ==
    IF d.ti < Len(d.targets)
    THEN [d EXCEPT !.ti = d.ti + 1, !.pc = "send"]
    ELSE [d EXCEPT !.pc = "pace_msg", !.sleep = settings.sleep_between_messages]

\* use_cases.py lines 59-66: the window is checked; outside it the loop goes to
\* sleep, inside it _refresh_messages asks for today's texts.
DailyCheck ==
    /\ daily.pc = "check"
    /\ daily' = IF InAllowedWindow(settings, now)
                THEN [daily EXCEPT !.pc = "fetch", !.fetches = 1, !.log = <<>>]
                ELSE [daily EXCEPT !.pc = "sleep_closed", !.fetches = 0,
                                   !.log = <<>>,
                                   !.sleep = settings.sleep_between_messages]
    /\ UNCHANGED <<program, now, feed, failures, cronVars, settings, listen, rr>>

\* use_cases.py lines 64-65, 72-73: asyncio.sleep ends and the loop continues.
DailyWake ==
    /\ daily.pc \in {"sleep_closed", "sleep_empty"}
    /\ daily' = [daily EXCEPT !.pc = "check", !.sleep = 0, !.napped = TRUE]
    /\ UNCHANGED <<program, now, feed, failures, cronVars, settings, listen, rr>>

\* use_cases.py lines 39-43, 66-77: fetch_today_texts returns or raises (no
\* handler: the exception leaves run_forever); then _load_targets.
DailyFetch ==
    /\ daily.pc = "fetch"
    /\ \/ /\ failures < MaxFailures
          /\ failures' = failures + 1
          /\ daily' = [daily EXCEPT !.pc = "raised"]
       \/ /\ failures' = failures
          /\ LET d == ResetIdx([daily EXCEPT
                          !.messages = FetchTodayTexts(feed, now, settings.tz),
                          !.day = LocalDay(now, settings.tz),
                          !.pages = PageRequests(feed, 0,
                                        DayStartNaive(now, settings.tz)),
                          !.fetched = TRUE,
                          !.napped = FALSE])
             IN  daily' = IF settings.forward_to = "all"
                          THEN [d EXCEPT !.pc = "list_groups"]
                          ELSE WithTargets(d, settings.target_groups)
    /\ UNCHANGED <<program, now, feed, cronVars, settings, listen, rr>>

\* use_cases.py lines 34-37, 67-77: list_public_groups returns or raises.
DailyListGroups ==
    /\ daily.pc = "list_groups"
    /\ \/ /\ failures < MaxFailures
          /\ failures' = failures + 1
          /\ daily' = [daily EXCEPT !.pc = "raised"]
       \/ /\ failures' = failures
          /\ \E tgs \in PublicGroups : daily' = WithTargets(daily, tgs)
    /\ UNCHANGED <<program, now, feed, cronVars, settings, listen, rr>>

\* telegram_gateway.py lines 98-106: forward_messages(tg, message.raw) returns,
\* raises FloodWaitError or raises another exception.
DailySend ==
    LET tg == daily.targets[daily.ti]
        m  == daily.messages[daily.idx + 1]
        logged(res) == [daily EXCEPT !.log =
                           Append(daily.log, [tg |-> tg, id |-> m.id, res |-> res])]
    IN  /\ daily.pc = "send"
        /\ \/ /\ failures' = failures
              /\ daily' = [logged("ok") EXCEPT !.pc = "pace_send", !.sleep = 1]
           \/ /\ failures < MaxFailures
              /\ failures' = failures + 1
              /\ \E secs \in FloodSeconds :
                    daily' = [logged("flood") EXCEPT !.pc = "cooldown", !.sleep = secs]
           \/ /\ failures < MaxFailures
              /\ failures' = failures + 1
              /\ daily' = NextTarget(logged("error"))
        /\ UNCHANGED <<program, now, feed, cronVars, settings, listen, rr>>

\* telegram_gateway.py lines 101, 104: the sleep after a send, or after a flood
\* wait, ends.
DailyPaced ==
    /\ daily.pc \in {"pace_send", "cooldown"}
    /\ daily' = NextTarget([daily EXCEPT !.sleep = 0])
    /\ UNCHANGED <<program, now, feed, failures, cronVars, settings, listen, rr>>

\* services.py lines 26-29 and use_cases.py lines 75-80: the sleep between
\* messages ends; round_robin steps to (i + 1) % length and yields, or has
\* yielded length times and the loop of run_forever starts over.
DailyAdvance ==
    LET d == [daily EXCEPT !.sleep = 0, !.napped = TRUE]
        length == Len(daily.messages)
    IN  /\ daily.pc = "pace_msg"
        /\ daily' = IF daily.n < length
                    THEN Yield(d, (daily.idx + 1) % length)
                    ELSE [d EXCEPT !.pc = "check"]
        /\ UNCHANGED <<program, now, feed, failures, cronVars, settings, listen, rr>>

\* ----------------------------------------------------- the listen program
\* One invocation of the handler that ForwardOnNew.start registers, for the
\* NewMessage event of the source message of the same number.
Handlers == 1..MaxFeed

NoHandler == [pc |-> "none", outcome |-> "none", targets |-> <<>>, ti |-> 0,
              log |-> <<>>, sleep |-> 0, call |-> 0]

ListenOff == [e \in Handlers |-> NoHandler]

\* The forward_messages calls the handlers have made so far, those that have
\* returned or raised and those awaited; each call is logged with its number
\* in the order in which the calls were made.
Calls ==
    Cardinality(UNION {{<<e, i>> : i \in 1..Len(listen[e].log)} : e \in Handlers})
    + Cardinality({e \in Handlers : listen[e].pc = "send"})

\* use_cases.py lines 118-123 and telegram_gateway.py lines 95-100: the
\* targets are in hand; forward_text asks for the first send.
HandlerWithTargets(h, tgs) ==
    IF tgs = <<>>
    THEN [h EXCEPT !.targets = tgs, !.pc = "done", !.outcome = "no_targets"]
    ELSE [h EXCEPT !.targets = tgs, !.ti = 1, !.pc = "send", !.call = Calls + 1]

\* telegram_gateway.py line 98, mutated: forward_text returns after its first
\* target.
HandlerStopsAfterFirst(h) == [h EXCEPT !.pc = "done", !.outcome = "forwarded"]

\* telegram_gateway.py line 98 and use_cases.py line 124: the next target of
\* forward_text, or its return and the end of the handler.
HandlerNextTarget(h) ==
    IF h.ti < Len(h.targets)
    THEN [h EXCEPT !.ti = h.ti + 1, !.pc = "send", !.call = Calls + 1]
    ELSE [h EXCEPT !.pc = "done", !.outcome = "forwarded"]

\* use_cases.py lines 98-120: the client dispatches the NewMessage event of
\* message e, the events in the order of the messages; the handler runs to its
\* first await.
NewMessage(e) ==
    /\ program = "listen"
    /\ e <= Len(feed)
    /\ listen[e].pc = "none"
    /\ \A k \in 1..(e - 1) : listen[k].pc # "none"
    /\ listen' = [listen EXCEPT ![e] =
          IF ~feed[e].text
          THEN [NoHandler EXCEPT !.pc = "done", !.outcome = "no_text"]
          ELSE IF settings.forward_to = "all"
          THEN [NoHandler EXCEPT !.pc = "list_groups"]
          ELSE HandlerWithTargets(NoHandler, settings.target_groups)]
    /\ UNCHANGED <<program, now, feed, failures, cronVars, settings, daily, rr>>

\* use_cases.py line 114: list_public_groups returns or raises (the exception
\* leaves the handler).
ListenListGroups(e) ==
    /\ listen[e].pc = "list_groups"
    /\ \/ /\ failures < MaxFailures
          /\ failures' = failures + 1
          /\ listen' = [listen EXCEPT ![e].pc = "done", ![e].outcome = "raised"]
       \/ /\ failures' = failures
          /\ \E tgs \in PublicGroups :
                listen' = [listen EXCEPT ![e] = HandlerWithTargets(listen[e], tgs)]
    /\ UNCHANGED <<program, now, feed, cronVars, settings, daily, rr>>

\* telegram_gateway.py lines 98-106: forward_messages(tg, message.raw) returns,
\* raises FloodWaitError or raises another exception.
ListenSend(e) ==
    LET h  == listen[e]
        tg == h.targets[h.ti]
        logged(res) == [h EXCEPT !.log = Append(h.log,
                           [tg |-> tg, id |-> e, res |-> res, n |-> h.call])]
    IN  /\ h.pc = "send"
        /\ \/ /\ failures' = failures
              /\ listen' = [listen EXCEPT ![e] =
                                [logged("ok") EXCEPT !.pc = "pace_send", !.sleep = 1]]
           \/ /\ failures < MaxFailures
              /\ failures' = failures + 1
              /\ \E secs \in FloodSeconds :
                    listen' = [listen EXCEPT ![e] =
                                  [logged("flood") EXCEPT !.pc = "cooldown", !.sleep = secs]]
           \/ /\ failures < MaxFailures
              /\ failures' = failures + 1
              /\ listen' = [listen EXCEPT ![e] = HandlerNextTarget(logged("error"))]
        /\ UNCHANGED <<program, now, feed, cronVars, settings, daily, rr>>

\* telegram_gateway.py lines 101, 104: the sleep after a send, or after a flood
\* wait, ends.
ListenPaced(e) ==
    /\ listen[e].pc \in {"pace_send", "cooldown"}
    /\ listen' = [listen EXCEPT ![e] = HandlerNextTarget([listen[e] EXCEPT !.sleep = 0])]
    /\ UNCHANGED <<program, now, feed, failures, cronVars, settings, daily, rr>>

\* ------------------------------------------------------------ round_robin
\* services.py line 29, mutated: the index is not advanced.
StepStuck(i, length) == i

\* services.py line 29: i = (i + 1) % length.
Step(i, length) == (i + 1) % length

\* services.py lines 27-29: the pairs the loop yields from index i on, `left`
\* turns of `for _ in range(length)` remaining; messages[i] of the code is
\* messages[i + 1] here.
RECURSIVE Yields(_, _, _)
Yields(messages, i, left) ==
    IF left = 0 THEN <<>>
    ELSE <<[pos |-> i, msg |-> messages[i + 1]]>>
         \o Yields(messages, Step(i, Len(messages)), left - 1)

\* services.py lines 12-29: round_robin(messages, index), as the sequence of
\* the pairs it yields.
RoundRobin(messages, index) ==
    IF messages = <<>> THEN <<>> ELSE Yields(messages, index, Len(messages))

RrOff ==
    [pc |-> "off", messages |-> <<>>, start |-> 0, index |-> 0, arg |-> 0,
     pairs |-> <<>>, k |-> 0, sweeps |-> 0, visits |-> <<>>]

\* The caller takes the next pair of the generator, as the for statement of
\* use_cases.py line 75 does: the position goes to its index.
Taken(r, k) ==
    [r EXCEPT !.pc = "iterating", !.k = k, !.index = r.pairs[k].pos,
              !.visits = Append(r.visits, r.pairs[k].pos)]

\* `for index, msg in round_robin(messages, index)` is entered: the generator
\* is made from the caller's index and runs to its first yield, or returns at
\* once.
RoundRobinCall ==
    /\ rr.pc = "idle"
    /\ rr.sweeps < MaxSweeps
    /\ LET r == [rr EXCEPT !.pairs = RoundRobin(rr.messages, rr.index),
                           !.arg = rr.index,
                           !.sweeps = rr.sweeps + 1]
       IN  rr' = IF r.pairs = <<>> THEN r ELSE Taken(r, 1)
    /\ UNCHANGED <<program, now, feed, failures, cronVars, settings, daily, listen>>

\* The body of the for statement ends and the generator is resumed: it yields
\* its next pair, or is exhausted and the for statement ends.
RoundRobinNext ==
    /\ rr.pc = "iterating"
    /\ rr' = IF rr.k < Len(rr.pairs)
             THEN Taken(rr, rr.k + 1)
             ELSE [rr EXCEPT !.pc = "idle", !.k = 0]
    /\ UNCHANGED <<program, now, feed, failures, cronVars, settings, daily, listen>>

\* ------------------------------------------------------- the environment
\* A message is posted in the source channel.
Post ==
    /\ Len(feed) < MaxFeed
    /\ feed' = Append(feed, [id |-> Len(feed) + 1, date |-> now, text |-> TRUE, media |-> FALSE])
    /\ UNCHANGED <<program, now, failures, config, task, spawned, boots, loaded, commands, dailyVars>>

\* A photo without caption is posted in the source channel while ForwardOnNew
\* listens (the photos the other programs meet are those of their first feed).
PostPhoto ==
    /\ program = "listen"
    /\ Len(feed) < MaxFeed
    /\ feed' = Append(feed, [id |-> Len(feed) + 1, date |-> now, text |-> FALSE, media |-> TRUE])
    /\ UNCHANGED <<program, now, failures, config, task, spawned, boots, loaded, commands, dailyVars>>

\* Half an hour passes.
Tick ==
    /\ now < 41 + MaxTicks
    /\ now' = now + 1
    /\ UNCHANGED <<program, feed, failures, config, task, spawned, boots, loaded, commands, dailyVars>>

\* config_manager.py load_config: what config.json may hold at start.
InitConfigs ==
    [source_channel : {"@somechannel"},
     cron_schedule : {"* * * * *"},
     supergroups : {<<"A", "B", "C">>},
     forward_mode : {"new", "today"},
     forward_order : {"one_by_one", "batch"},
     time_interval_enabled : {TRUE},
     start_hour : {8},
     end_hour : {21},
     last_forwarded_id : {0}]

\* teleforwarder/config.py Settings: what the environment may set.
InitSettings ==
    [forward_to : {"list", "all"},
     target_groups : {<<"A", "B">>},
     tz : {0},
     start_hour : {8},
     end_hour : {21},
     sleep_between_messages : {60}]
    \cup
    [forward_to : {"list"},
     target_groups : {<<>>},
     tz : {7},
     start_hour : {0},
     end_hour : {1},
     sleep_between_messages : {60}]

\* The source channel when the continuous program starts: a text of the day
\* before and a photo of today.
OlderFeed ==
    <<[id |-> 1, date |-> 0 - 1, text |-> TRUE, media |-> FALSE],
      [id |-> 2, date |-> 40, text |-> FALSE, media |-> TRUE]>>

\* config_manager.py lines 51-62: the configuration written when config.json
\* does not exist.
DefaultConfig ==
    [source_channel |-> "@somechannel", cron_schedule |-> "* * * * *",
     supergroups |-> <<"A">>, forward_mode |-> "new",
     forward_order |-> "one_by_one", time_interval_enabled |-> TRUE,
     start_hour |-> 8, end_hour |-> 22, last_forwarded_id |-> 0]

\* teleforwarder/config.py lines 21-32: the defaults of Settings, with two
\* target groups.
DefaultSettings ==
    [forward_to |-> "list", target_groups |-> <<"A", "B">>, tz |-> 7,
     start_hour |-> 8, end_hour |-> 22, sleep_between_messages |-> 60]

\* The source channel when the cron program starts with something to forward:
\* a text and, after it, a photo without caption.
Backlog ==
    <<[id |-> 1, date |-> 40, text |-> TRUE, media |-> FALSE],
      [id |-> 2, date |-> 40, text |-> FALSE, media |-> TRUE]>>

\* What no program of the run touches.
Idle ==
    /\ failures = 0
    /\ task = [t \in Tasks |-> NoTask]
    /\ spawned = 0
    /\ boots = 0
    /\ loaded = config
    /\ commands = 0
    /\ listen = ListenOff
    /\ rr = RrOff

InitCron ==
    /\ program = "cron"
    /\ now = 41
    /\ feed \in {<<>>, Backlog}
    /\ config \in InitConfigs
    /\ settings = DefaultSettings
    /\ daily = DailyOff
    /\ Idle

InitDaily ==
    /\ program = "daily"
    /\ now = 41
    /\ feed \in {<<>>, OlderFeed}
    /\ config = DefaultConfig
    /\ settings \in InitSettings
    /\ daily = DailyIdle
    /\ Idle

\* teleforwarder/main.py lines 27-30: FORWARD_MODE=listen; ForwardOnNew.start
\* has registered its handler and waits for events.
InitListen ==
    /\ program = "listen"
    /\ now = 41
    /\ feed = <<>>
    /\ config = DefaultConfig
    /\ settings \in InitSettings
    /\ daily = DailyOff
    /\ Idle

Init == InitCron \/ InitDaily \/ InitListen

CronStep ==
    \E t \in Tasks :
        \/ CheckWindow(t)
        \/ ResolveSource(t)
        \/ FetchNew(t)
        \/ FetchToday(t)
        \/ SgEntity(t)
        \/ Batch(t)
        \/ Send(t)

DailyStep ==
    \/ DailyCheck
    \/ DailyWake
    \/ DailyFetch
    \/ DailyListGroups
    \/ DailySend
    \/ DailyPaced
    \/ DailyAdvance

AdminStep ==
    \/ SetMode
    \/ SetOrder
    \/ SetGroups
    \/ SetTimeInterval

ListenStep ==
    \E e \in Handlers :
        \/ NewMessage(e)
        \/ ListenListGroups(e)
        \/ ListenSend(e)
        \/ ListenPaced(e)

Next ==
    \/ ForwardingJob
    \/ CronStep
    \/ Restart
    \/ DailyStep
    \/ ListenStep
    \/ Post
    \/ PostPhoto
    \/ Tick

Spec == Init /\ [][Next]_vars
\* ------------------------------------------- the admission check on its own
\* One forward_messages_async task about to check the window and run_forever
\* about to check it, at every half hour of the day, for every window.
InitAdmission ==
    /\ program = "admission"
    /\ now \in 0..47
    /\ feed = <<>>
    /\ failures = 0
    /\ boots = 0
    /\ commands = 0
    /\ listen = ListenOff
    /\ rr = RrOff
    /\ \E s \in 0..23, e \in 1..24 :
          /\ \E en \in BOOLEAN :
                config = [DefaultConfig EXCEPT !.time_interval_enabled = en,
                                               !.start_hour = s, !.end_hour = e]
          /\ \E z \in {0, 7} :
                settings = [DefaultSettings EXCEPT !.tz = z,
                                                   !.start_hour = s, !.end_hour = e]
    /\ task = [t \in Tasks |-> IF t = 1 THEN [NoTask EXCEPT !.pc = "start"] ELSE NoTask]
    /\ spawned = 1
    /\ loaded = config
    /\ daily = DailyIdle

NextAdmission ==
    \/ \E t \in Tasks : CheckWindow(t)
    \/ DailyCheck

SpecAdmission == InitAdmission /\ [][NextAdmission]_vars

\* ------------------------------------- the cron program with its admin bot
\* The cron program while the admin sends commands, the source channel quiet
\* after its first two messages and the clock at 20:30 UTC.
InitAdmin == InitCron /\ feed = Backlog

NextAdmin ==
    \/ ForwardingJob
    \/ CronStep
    \/ Restart
    \/ AdminStep

SpecAdmin == InitAdmin /\ [][NextAdmin]_vars

\* ------------------------------------------ fetch_today_texts on its own
\* The dates of the messages of the source: the day before, midnight UTC,
\* 20:00 and 20:30 UTC of day 0 (20:30 UTC is midnight in Asia/Tehran).
ResolverDates == {0 - 1, 0, 40, 41}

\* The source channels of at most MaxFeed messages, each a text or a photo
\* without caption, the dates in the order of the ids.
ResolverFeeds ==
    UNION {{[i \in 1..L |-> [id |-> i, date |-> d[i], text |-> x[i], media |-> ~x[i]]] :
               d \in {dd \in [1..L -> ResolverDates] :
                         \A i, j \in 1..L : i < j => dd[i] <= dd[j]},
               x \in [1..L -> BOOLEAN]} : L \in 0..MaxFeed}

\* _refresh_messages about to call fetch_today_texts and a cron cycle in
\* "today" mode about to call fetch_all_today_messages, at 20:30 UTC of day 0
\* and at 01:00 UTC of day 1, in UTC and in Asia/Tehran.
InitResolver ==
    /\ program = "resolver"
    /\ now \in {41, 50}
    /\ feed \in ResolverFeeds
    /\ config = DefaultConfig
    /\ \E z \in {0, 7} :
          settings = [DefaultSettings EXCEPT !.tz = z, !.start_hour = 0, !.end_hour = 24]
    /\ daily = [DailyIdle EXCEPT !.pc = "fetch", !.fetches = 1]
    /\ task = [t \in Tasks |->
                 IF t = 1
                 THEN [NoTask EXCEPT !.pc = "fetch_today", !.mode = "today",
                                     !.mode0 = "today", !.fetches = 2]
                 ELSE NoTask]
    /\ spawned = 1
    /\ failures = 0
    /\ boots = 0
    /\ loaded = config
    /\ commands = 0
    /\ listen = ListenOff
    /\ rr = RrOff

NextResolver ==
    \/ DailyFetch
    \/ \E t \in Tasks : FetchToday(t)

SpecResolver == InitResolver /\ [][NextResolver]_vars

\* ------------------------------------------------ round_robin on its own
\* A caller holding a list of at most MaxLen messages and an index into it.
InitRoundRobin ==
    /\ program = "round_robin"
    /\ now = 41
    /\ feed = <<>>
    /\ config = DefaultConfig
    /\ settings = DefaultSettings
    /\ daily = DailyOff
    /\ failures = 0
    /\ task = [t \in Tasks |-> NoTask]
    /\ spawned = 0
    /\ boots = 0
    /\ loaded = config
    /\ commands = 0
    /\ listen = ListenOff
    /\ \E L \in 0..MaxLen :
          \E messages \in [1..L -> {"a", "b"}] :
             \E p \in 0..(IF L = 0 THEN 0 ELSE L - 1) :
                rr = [RrOff EXCEPT !.pc = "idle", !.messages = messages,
                                   !.start = p, !.index = p]

NextRoundRobin ==
    \/ RoundRobinCall
    \/ RoundRobinNext

SpecRoundRobin == InitRoundRobin /\ [][NextRoundRobin]_vars

\* ------------------------------------------------------------------ claims
\* The hour of the day at instant t in the zone `off` half hours east of UTC.
HourOfDay(t, off) ==
    CHOOSE h \in 0..23 : \E d \in 0..2, k \in 0..1 : t + off = (48 * d) + (2 * h) + k

WindowHolds(s, e, h) == s <= h /\ h < e

\* C1: a cycle is admitted if and only if the window is disabled or
\* start_hour <= hour < end_hour: the cron task goes on to resolve the source
\* exactly then (its hour is the UTC hour, the cron program has no time zone
\* setting), and run_forever goes on to fetch exactly when the hour in
\* settings.timezone is in the window (it has no switch to disable the window).
C1_AdmissionIffInWindow ==
    /\ \A t \in Tasks :
          task[t].pc \notin {"none", "start"} =>
             (task[t].pc = "get_source" <=>
                 (~config.time_interval_enabled
                  \/ WindowHolds(config.start_hour, config.end_hour, HourOfDay(now, 0))))
    /\ daily.pc \notin {"off", "check"} =>
          (daily.pc = "fetch" <=>
              WindowHolds(settings.start_hour, settings.end_hour,
                          HourOfDay(now, settings.tz)))

\* The boundary cases: the cron task admitted at hour = start_hour, and
\* run_forever refused at local hour = end_hour in a zone that is not UTC.
C1_Witness ==
    /\ config.time_interval_enabled
    /\ HourOfDay(now, 0) = config.start_hour
    /\ task[1].pc = "get_source"
    /\ settings.tz = 7
    /\ HourOfDay(now, settings.tz) = settings.end_hour
    /\ daily.pc = "sleep_closed"

\* C2: the watermark last_forwarded_id never decreases.
C2_WatermarkNeverDecreases ==
    [][config'.last_forwarded_id >= config.last_forwarded_id]_vars

\* Every supergroup of the task's list has been attempted.
AllGroupsAttempted(tk) ==
    \A g \in 1..Len(tk.sgs) : \E i \in 1..Len(tk.log) : tk.log[i].sg = tk.sgs[g]

LargestId(msgs) ==
    CHOOSE x \in {msgs[i].id : i \in 1..Len(msgs)} :
        \A i \in 1..Len(msgs) : msgs[i].id <= x

\* C3: in an incremental cycle with a non-empty resolved set the watermark is
\* written exactly once, after the loop over all destinations has ended, with
\* the largest id of the resolved set; it changes at no other step.
C3_WatermarkWrittenOnceAtEnd ==
    /\ [][/\ \A t \in Tasks :
              task'[t].wrote # task[t].wrote =>
                 /\ task[t].wrote = 0 /\ task'[t].wrote = 1
                 /\ task[t].pc # "done" /\ task'[t].pc = "done"
                 /\ task'[t].outcome = "complete"
                 /\ task'[t].sgi = Len(task'[t].sgs) + 1
                 /\ AllGroupsAttempted(task'[t])
                 /\ config'.last_forwarded_id = LargestId(task'[t].msgs)
          /\ config'.last_forwarded_id # config.last_forwarded_id =>
                \E t \in Tasks : task'[t].wrote # task[t].wrote]_vars
    /\ [](\A t \in Tasks :
             (task[t].outcome = "complete" /\ task[t].mode = "new") =>
                 task[t].wrote = 1)

\* An incremental cycle over two messages has ended and has written the
\* watermark.
C3_Witness ==
    \E t \in Tasks :
        /\ task[t].outcome = "complete"
        /\ task[t].mode = "new"
        /\ Len(task[t].msgs) = 2
        /\ task[t].msgs[1].id < task[t].msgs[2].id
        /\ task[t].wrote = 1
        /\ config.last_forwarded_id = task[t].msgs[2].id

\* Every attempt at supergroup g in the log failed, and there is one.
AllFailed(tk, g) ==
    /\ \E i \in 1..Len(tk.log) : tk.log[i].sg = g
    /\ \A i \in 1..Len(tk.log) : tk.log[i].sg = g => ~tk.log[i].ok

\* Supergroup g was sent every message of the resolved set, and no call for g
\* failed.
GotAll(tk, g) ==
    /\ \A i \in 1..Len(tk.log) : tk.log[i].sg = g => tk.log[i].ok
    /\ \A j \in 1..Len(tk.msgs) :
          \E i \in 1..Len(tk.log) :
             tk.log[i].sg = g /\ tk.log[i].id = tk.msgs[j].id /\ tk.log[i].ok

\* Task t ends at this step, the process going on.
Ends(t) == task[t].pc \notin {"none", "done"} /\ task'[t].pc = "done" /\ boots' = boots

\* C4: an incremental cycle over [A, B, C] in which the calls for B fail and
\* no call for A or C fails ends normally, A and C having been sent every
\* message of the resolved set, and writes the largest id as the watermark.
C4_FailureOfOneGroupIsIsolated ==
    [][\A t \in Tasks :
          (/\ Ends(t)
           /\ task'[t].mode = "new"
           /\ task'[t].sgs = <<"A", "B", "C">>
           /\ task'[t].msgs # <<>>
           /\ AllFailed(task'[t], "B")
           /\ \A i \in 1..Len(task'[t].log) :
                 task'[t].log[i].sg # "B" => task'[t].log[i].ok)
          => /\ task'[t].outcome = "complete"
             /\ GotAll(task'[t], "A")
             /\ GotAll(task'[t], "C")
             /\ config'.last_forwarded_id = LargestId(task'[t].msgs)]_vars

\* An incremental cycle over [A, B, C] has ended with the send to B failed and
\* both messages of its resolved set sent to A and to C.
C4_Witness ==
    \E t \in Tasks :
        /\ task[t].outcome = "complete"
        /\ task[t].mode = "new"
        /\ task[t].sgs = <<"A", "B", "C">>
        /\ Len(task[t].msgs) = 2
        /\ AllFailed(task[t], "B")
        /\ GotAll(task[t], "A")
        /\ GotAll(task[t], "C")
        /\ task[t].wrote = 1

\* C5: a cycle whose admission check fails resolves and fetches nothing, sends
\* nothing and leaves the watermark and the cursor alone; run_forever then
\* sleeps sleep_between_messages and checks the window again.
C5_RefusedCycleDoesNothing ==
    /\ [][/\ \A t \in Tasks :
              (/\ task[t].pc = "start"
               /\ task'[t].pc # "start"
               /\ config.time_interval_enabled
               /\ ~WindowHolds(config.start_hour, config.end_hour, HourOfDay(now, 0)))
              => /\ task'[t].pc = "done"
                 /\ task'[t].fetches = 0
                 /\ task'[t].log = <<>>
                 /\ task'[t].wrote = 0
                 /\ config' = config
          /\ (/\ daily.pc = "check"
              /\ daily' # daily
              /\ ~WindowHolds(settings.start_hour, settings.end_hour,
                              HourOfDay(now, settings.tz)))
             => /\ daily'.pc = "sleep_closed"
                /\ daily'.sleep = settings.sleep_between_messages
                /\ daily'.fetches = 0
                /\ daily'.log = <<>>
                /\ daily'.messages = daily.messages
                /\ daily'.idx = daily.idx
          /\ (daily.pc = "sleep_closed" /\ daily' # daily)
             => /\ daily'.pc = "check"
                /\ daily'.fetches = 0
                /\ daily'.log = <<>>
                /\ daily'.messages = daily.messages
                /\ daily'.idx = daily.idx]_vars
    /\ [](\A t \in Tasks :
             task[t].outcome = "skipped" =>
                 task[t].fetches = 0 /\ task[t].log = <<>> /\ task[t].wrote = 0)

\* run_forever sleeps outside the window while the source holds messages,
\* having fetched and sent nothing in this turn of its loop.
C5_Witness ==
    /\ daily.pc = "sleep_closed"
    /\ daily.sleep = settings.sleep_between_messages
    /\ feed # <<>>
    /\ daily.fetches = 0

\* C6: a cycle whose source cannot be resolved or fetched sends nothing and
\* changes neither watermark nor cursor, and the failure does not leave the
\* cycle: no task ends with the exception raised out of the coroutine, and
\* run_forever is not left by it.
C6_SourceFailureIsAbsorbed ==
    /\ \A t \in Tasks :
          task[t].outcome \in {"no_source", "raised"} =>
             /\ task[t].log = <<>>
             /\ task[t].wrote = 0
             /\ task[t].outcome # "raised"
    /\ daily.pc # "raised"

\* C7: run_forever never ends on its own.
C7_LoopNeverEnds == daily.pc \notin {"returned", "raised"}

\* C8: at most one forward_messages_async task is active at any time.
C8_AtMostOneActiveCycle == Cardinality({t \in Tasks : Running(t)}) <= 1

\* The first cycle created after the restart that ended task t.
NextCycleAfter(t, u) ==
    /\ u \in Tasks
    /\ task[u].pc # "none"
    /\ task[u].boot > task[t].boot
    /\ \A v \in Tasks :
          (task[v].pc # "none" /\ task[v].boot > task[t].boot) => u <= v

\* C9: when the process stops during an incremental cycle, the persisted
\* watermark is still the one the cycle started with, and the next incremental
\* cycle resolves every message the interrupted cycle had resolved.
C9_InterruptedCycleIsRedelivered ==
    /\ [][boots' # boots =>
             \A t \in Tasks :
                (Running(t) /\ task[t].mode = "new")
                => config'.last_forwarded_id = task[t].wm0]_vars
    /\ [](\A t, u \in Tasks :
             (/\ task[t].outcome = "killed"
              /\ task[t].mode = "new"
              /\ NextCycleAfter(t, u)
              /\ task[u].mode = "new"
              /\ task[u].outcome \in {"empty", "complete"} \/ task[u].msgs # <<>>)
             => \A i \in 1..Len(task[t].msgs) :
                   \E j \in 1..Len(task[u].msgs) :
                      task[u].msgs[j].id = task[t].msgs[i].id)

\* C10: in incremental mode the resolved set holds only source messages with
\* id above the watermark the cycle read, in ascending order of date, nothing
\* at or below that watermark is sent, and the cycle ends with the watermark
\* at the largest id of the resolved set.
C10_IncrementalResolution ==
    /\ [](\A t \in Tasks :
             task[t].mode = "new" =>
                /\ \A i \in 1..Len(task[t].msgs) :
                      /\ task[t].msgs[i].id > task[t].last_id
                      /\ task[t].msgs[i].id \in 1..Len(feed)
                      /\ feed[task[t].msgs[i].id] = task[t].msgs[i]
                /\ \A i, j \in 1..Len(task[t].msgs) :
                      i < j => task[t].msgs[i].date <= task[t].msgs[j].date
                /\ \A i \in 1..Len(task[t].log) :
                      task[t].log[i].id = 0 \/ task[t].log[i].id > task[t].last_id)
    /\ [][\A t \in Tasks :
             (Ends(t) /\ task'[t].mode = "new" /\ task'[t].outcome = "complete")
             => /\ config'.last_forwarded_id = LargestId(task'[t].msgs)
                /\ config'.last_forwarded_id > task'[t].last_id]_vars

\* A second incremental cycle has read watermark 1, resolved messages 2 and 3,
\* posted at different times, and has ended with the watermark at 3.
C10_Witness ==
    \E t \in Tasks :
        /\ task[t].outcome = "complete"
        /\ task[t].mode = "new"
        /\ task[t].last_id = 1
        /\ Len(task[t].msgs) = 2
        /\ task[t].msgs[1].date < task[t].msgs[2].date
        /\ config.last_forwarded_id = 3

\* C11: in an incremental cycle with sequential order no source message
\* without plain text is in the resolved set, and none is sent to a supergroup.
C11_NonTextIsNeverForwarded ==
    \A t \in Tasks :
        (task[t].mode = "new" /\ task[t].order = "one_by_one") =>
            /\ \A i \in 1..Len(task[t].msgs) : task[t].msgs[i].text
            /\ \A i \in 1..Len(task[t].log) :
                  task[t].log[i].id # 0 => feed[task[t].log[i].id].text

\* Midnight of the current day in the zone `off` half hours east of UTC, as an
\* instant: the latest instant up to t at which the local time of day is 0.
LocalMidnight(t, off) == CHOOSE m \in (t - 47)..t : (m + off) % 48 = 0

\* The texts of the source posted at or after instant m, oldest first.
TextsSince(f, m) == SelectSeq(f, LAMBDA x : x.text /\ x.date >= m)

\* C12: fetch_today_texts returns exactly the text messages of the source
\* dated at or after local midnight of the current day in the configured
\* zone, oldest first.
C12_FullDayResolverIsExact ==
    daily.pc \in {"send", "sleep_empty", "returned", "list_groups"} =>
        daily.messages = TextsSince(feed, LocalMidnight(now, settings.tz))

\* C13: a caller that hands round_robin the position it was last given visits
\* p, p+1, ... modulo L, over the boundaries of the invocations as well; an
\* empty list gives no step.
C13_CursorCarriesOverInvocations ==
    /\ \A k \in 1..Len(rr.visits) :
          rr.visits[k] = (rr.start + k - 1) % Len(rr.messages)
    /\ rr.messages = <<>> => rr.visits = <<>>

\* The date of the message of log entry e, an attempt with a message id.
DateOf(e) == feed[e.id].date

\* C14: within one cycle no send attempt for a later message precedes one for
\* an earlier message, and the attempts for one message go through the
\* destinations in the order of the list.
C14_SendsAscendByDate ==
    /\ \A t \in Tasks : \A i, j \in 1..Len(task[t].log) :
          (i < j /\ task[t].log[i].id # 0 /\ task[t].log[j].id # 0) =>
             DateOf(task[t].log[i]) <= DateOf(task[t].log[j])
    /\ \A i, j \in 1..Len(daily.log) :
          i < j => DateOf(daily.log[i]) <= DateOf(daily.log[j])

\* C15: after a send that fails with a FloodWaitError the sender sleeps the
\* seconds the error carries before it makes another send, then goes on with
\* the next destination; no message is attempted twice at a destination in one
\* cycle.
C15_FloodWaitIsSleptOut ==
    /\ [](\A t \in Tasks :
             /\ \A i, j \in 1..Len(task[t].log) :
                   (/\ i < j
                    /\ task[t].log[i].flood > 0
                    /\ task[t].log[j].id # 0
                    /\ task[t].log[j].sg # task[t].log[i].sg)
                   => task[t].log[i].slept >= task[t].log[i].flood
             /\ \A i, j \in 1..Len(task[t].log) :
                   (i < j /\ task[t].log[i].id # 0 /\ task[t].log[i].id = task[t].log[j].id)
                   => task[t].log[i].sg # task[t].log[j].sg)
    /\ [](\A i, j \in 1..Len(daily.log) :
             (i < j /\ daily.log[i].id = daily.log[j].id)
             => daily.log[i].tg # daily.log[j].tg)
    /\ [][/\ (Len(daily'.log) > Len(daily.log)
              /\ daily'.log[Len(daily'.log)].res = "flood")
             => (daily'.pc = "cooldown" /\ daily'.sleep \in FloodSeconds)
          /\ (daily.pc = "cooldown" /\ daily' # daily)
             => /\ daily'.log = daily.log
                /\ \/ daily'.pc = "send" /\ daily'.ti = daily.ti + 1
                   \/ daily'.pc = "pace_msg" /\ daily.ti = Len(daily.targets)]_vars

\* C16: an admitted turn of run_forever fetches today's messages only if the
\* list it holds is empty or was fetched on an earlier calendar day.
C16_FetchOnlyWhenStale ==
    [][(daily.pc = "check" /\ daily'.pc = "fetch")
       => \/ daily.messages = <<>>
          \/ daily.day # LocalDay(now, settings.tz)]_vars

\* C17: every cycle of the running process works in the mode that was
\* configured when the process started, whatever /setmode has set since.
C17_ModeFixedAtStart ==
    \A t \in Tasks :
        (task[t].boot = boots /\ task[t].mode # "none")
        => task[t].mode = loaded.forward_mode

\* C18: the handler of an event whose message has no text sends nothing; for
\* a text the targets are resolved for that event and attempted once each in
\* the order of the list; no step of a handler touches the watermark or the
\* cursor of run_forever.
C18_ListenHandlesEachEventAlone ==
    /\ [](\A e \in Handlers :
             listen[e].pc # "none" =>
                /\ ~feed[e].text =>
                      listen[e].log = <<>> /\ listen[e].outcome = "no_text"
                /\ Len(listen[e].log) <= Len(listen[e].targets)
                /\ \A i \in 1..Len(listen[e].log) :
                      /\ listen[e].log[i].tg = listen[e].targets[i]
                      /\ listen[e].log[i].id = e
                /\ listen[e].outcome = "forwarded" =>
                      Len(listen[e].log) = Len(listen[e].targets)
                /\ (settings.forward_to = "list" /\ listen[e].pc # "done") =>
                      listen[e].targets = settings.target_groups)
    /\ [][/\ \A e \in Handlers :
              (listen[e].pc = "none" /\ listen'[e].pc # "none"
               /\ feed[e].text /\ settings.forward_to = "all")
              => listen'[e].pc = "list_groups"
          /\ listen' # listen =>
                /\ config' = config
                /\ daily' = daily
                /\ rr' = rr]_vars

\* Two events have been handled: a text attempted at both targets, the first
\* attempt failed, and a photo dropped.
C18_Witness ==
    \E e, f \in Handlers :
        /\ listen[e].outcome = "forwarded"
        /\ Len(listen[e].targets) = 2
        /\ Len(listen[e].log) = 2
        /\ listen[e].log[1].res # "ok"
        /\ listen[e].log[2].res = "ok"
        /\ listen[f].outcome = "no_text"

\* C19: a cycle uses the mode, the order and the supergroups that the
\* configuration held when the cycle started.
C19_CycleUsesItsSnapshot ==
    \A t \in Tasks :
        /\ task[t].mode # "none" => task[t].mode = task[t].mode0
        /\ task[t].order # "none" =>
              /\ task[t].order = task[t].order0
              /\ task[t].sgs = task[t].sgs0

C21_CursorStaysInRange ==
    /\ [](daily.messages # <<>> =>
             (0 <= daily.idx /\ daily.idx < Len(daily.messages)))
    /\ [][(daily.pc = "fetch" /\ daily'.pc \notin {"fetch", "raised"})
          => daily'.idx = 0]_vars

\* run_forever is sending the second of the two messages it holds.
C21_Witness ==
    /\ daily.pc = "send"
    /\ Len(daily.messages) = 2
    /\ daily.idx = 1
    /\ daily.fetched

\* The ids of the messages of a page.
PageIds(page) == {page.chunk[i].id : i \in 1..Len(page.chunk)}

\* The pages P requested from source f with boundary `start`: the first from
\* the newest message, none after an empty page or after a page whose oldest
\* message is before the boundary, each below the page before it, and no more
\* pages than the source has messages, plus one.
PagingIsSound(P, f, start) ==
    /\ Len(P) >= 1
    /\ Len(P) <= Len(f) + 1
    /\ P[1].offset = 0
    /\ \A k \in 1..(Len(P) - 1) :
          /\ P[k].chunk # <<>>
          /\ P[k].chunk[Len(P[k].chunk)].date >= start
          /\ \A x \in PageIds(P[k]), y \in PageIds(P[k + 1]) : y < x
    /\ LET last == P[Len(P)].chunk
       IN  last # <<>> => last[Len(last)].date < start

\* C22: the paging of fetch_today_texts and of fetch_all_today_messages ends,
\* asks for no page after an empty page or after a page whose oldest message
\* is before the boundary, and asks for each page strictly below the smallest
\* id of the page before.
C22_PagingTerminates ==
    /\ daily.fetched =>
          PagingIsSound(daily.pages, feed, DayStartNaive(now, settings.tz))
    /\ \A t \in Tasks :
          (/\ task[t].mode = "today"
           /\ task[t].pc # "fetch_today"
           /\ task[t].outcome # "raised") =>
             PagingIsSound(task[t].pages, feed, StartOfTodayUtc(now))

\* fetch_today_texts and fetch_all_today_messages have each asked for a full
\* page and then for a second one, whose message is before the boundary.
C22_Witness ==
    /\ daily.fetched
    /\ Len(daily.pages) = 2
    /\ Len(daily.pages[1].chunk) = PageLimit
    /\ daily.pages[2].chunk # <<>>
    /\ Len(task[1].pages) = 2
    /\ task[1].pages[2].chunk # <<>>

\* C23: run_forever sleeps sleep_between_messages at least once between two
\* fetches; with no message of today it sleeps that long and sends nothing
\* before it fetches again.
C23_LoopNeverSpins ==
    /\ [][/\ (daily.pc = "check" /\ daily'.pc = "fetch" /\ daily.fetched)
              => daily.napped
          /\ (daily.pc # "sleep_empty" /\ daily'.pc = "sleep_empty")
              => (daily'.sleep = settings.sleep_between_messages /\ daily'.log = <<>>)
          /\ (daily.pc = "sleep_empty" /\ daily' # daily)
              => (daily'.pc = "check" /\ daily'.log = <<>>)]_vars
    /\ [](daily.pc = "sleep_empty" => daily.messages = <<>>)
    /\ [](daily.pc \in {"list_groups", "send"} /\ daily.messages = <<>> => daily.log = <<>>)

\* run_forever fetches again after a fetch that gave no message and the sleep
\* that followed.
C23_Witness ==
    /\ daily.pc = "fetch"
    /\ daily.fetched
    /\ daily.napped
    /\ daily.messages = <<>>
    /\ feed # <<>>

\* C24: a destination whose get_entity or forward_messages call fails is
\* skipped, for the cycle in the cron program, for the message in
\* forward_text; the destinations after it are still attempted with every
\* message, and no call is made twice for a message and a destination.
C24_DestinationErrorIsLocal ==
    /\ \A t \in Tasks :
          /\ task[t].outcome = "complete" =>
                \A g \in 1..Len(task[t].sgs) :
                   (\A i \in 1..Len(task[t].log) :
                       task[t].log[i].sg = task[t].sgs[g] => task[t].log[i].ok)
                   => GotAll(task[t], task[t].sgs[g])
          /\ \A i, j \in 1..Len(task[t].log) :
                (i < j /\ task[t].log[i].id = task[t].log[j].id)
                => task[t].log[i].sg # task[t].log[j].sg
    /\ LET T == Len(daily.targets)
       IN  \A i \in 1..Len(daily.log) :
              /\ daily.log[i].tg = daily.targets[((i - 1) % T) + 1]
              /\ daily.log[i].id = daily.messages[((i - 1) \div T) + 1].id

\* forward_text failed at the first target for the first message, went on to
\* the second target, and run_forever has sent the next message to the first
\* target again.
C24_Witness ==
    /\ Len(daily.log) >= 3
    /\ daily.log[1].res = "error"
    /\ daily.log[2].res = "ok"
    /\ daily.log[3].tg = daily.log[1].tg
    /\ daily.log[3].id # daily.log[1].id

\* C25: whenever the window is in force, 0 <= start_hour < end_hour <= 24, in
\* config.json as loaded and as the admin bot leaves it, and in Settings.
C25_HoursAreOrdered ==
    /\ config.time_interval_enabled =>
          (0 <= config.start_hour /\ config.start_hour < config.end_hour
           /\ config.end_hour <= 24)
    /\ 0 <= settings.start_hour
    /\ settings.start_hour < settings.end_hour
    /\ settings.end_hour <= 24

\* C26: a cycle changes no key of the configuration but last_forwarded_id,
\* and a cycle in "today" mode changes none: the configuration changes only
\* by an admin command or by the write that ends a cycle in "new" mode.
C26_CycleWritesOnlyTheWatermark ==
    [][/\ config' # config =>
             \/ commands' # commands
             \/ \E t \in Tasks :
                   /\ Ends(t)
                   /\ task'[t].mode = "new"
                   /\ task'[t].wrote = task[t].wrote + 1
                   /\ \A key \in (DOMAIN config) \ {"last_forwarded_id"} :
                         config'[key] = config[key]
       /\ \A t \in Tasks :
             (Ends(t) /\ task'[t].mode = "today") => config' = config]_vars

\* A cycle in "new" mode has written the watermark after the admin replaced
\* the supergroups during the cycle; the admin's list is still in place.
C26_Witness ==
    \E t \in Tasks :
        /\ task[t].outcome = "complete"
        /\ task[t].mode = "new"
        /\ task[t].wrote = 1
        /\ task[t].sgs = <<"A", "B", "C">>
        /\ commands = 1
        /\ config.supergroups = <<"B", "A">>
        /\ config.last_forwarded_id = 2

\* C27: no send is made at an instant whose hour is outside the window in
\* force.
C27_NoSendOutsideWindow ==
    [][/\ Len(daily'.log) > Len(daily.log) =>
             WindowHolds(settings.start_hour, settings.end_hour,
                         HourOfDay(now, settings.tz))
       /\ \A t \in Tasks :
             (Len(task'[t].log) > Len(task[t].log) /\ config.time_interval_enabled)
             => WindowHolds(config.start_hour, config.end_hour, HourOfDay(now, 0))]_vars

\* C28: when a cycle that read watermark w writes watermark w', every source
\* message with id in (w, w'] is in the set the cycle resolved.
C28_NoGapBelowWatermark ==
    [][\A t \in Tasks :
          task'[t].wrote > task[t].wrote =>
             \A id \in (task[t].last_id + 1)..config'.last_forwarded_id :
                \E i \in 1..Len(task[t].msgs) : task[t].msgs[i].id = id]_vars

\* C29: no target is sent the message of a later event before the message of
\* an earlier event.
C29_ListenKeepsArrivalOrder ==
    \A e, f \in Handlers :
        e < f =>
           \A i \in 1..Len(listen[e].log), j \in 1..Len(listen[f].log) :
              (/\ listen[e].log[i].tg = listen[f].log[j].tg
               /\ listen[e].log[i].res = "ok"
               /\ listen[f].log[j].res = "ok")
              => listen[e].log[i].n < listen[f].log[j].n
====
